---- MODULE Spec2Model ----
(***************************************************************************)
(* Model of the WaniKani level-60 predictor (src/app.js and the older      *)
(* revision src/unnamed/part_000).                                         *)
(*                                                                         *)
(* Instants are local wall-clock times counted in half hours since the     *)
(* local midnight of day 0, so that setHours(h, 0, 0, 0) has minutes to    *)
(* clear.  The JavaScript Date values the functions receive are valid      *)
(* dates (the callers build them with new Date(), new Date(isoString) or   *)
(* from a previous result).                                                *)
(***************************************************************************)
EXTENDS Integers, Sequences, FiniteSets, TLC

\* ---------------------------------------------------------------- units
HOUR == 2
DAY == 48

\* ---------------------------------------------------------------- bounds
\* simulateToGuru / nextWindow are called with instants of days 0..MaxStartDay
MaxStartDay == 1
\* ... and with stages 0..MaxStage
MaxStage == 5
\* nextWindow is applied to its own result at most MaxChain times in a row
MaxChain == 3
\* the data source returns at most MaxAttempts level progressions of any kind
MaxAttempts == 3
\* ... or an unbroken run of at most MaxRun passed levels
MaxRun == 5
MaxItems == 3
BatchSize == 9
MaxReviews == 2

\* ---------------------------------------------------------------- constants
REVIEW_WINDOWS == <<9, 18>>
SRS_INTERVALS_H == <<4, 8, 23, 47, 167, 335, 719, 2879>>
\* for (let dayOffset = 0; dayOffset <= 14; dayOffset++)
MaxDayOffset == 14
\* while (stage < 4)
GuruStage == 4

\* if (p.data.level <= prevLevel && p.data.level <= 5)
RestartLevelCap == 5
\* if (done.length < 2) return null
MinDone == 2
\* const rec = durs.slice(-5)
RecentCount == 5
\* const left = 60 - _currentLevel
CeilingLevel == 60
\* const estReviewsPerLevel = 100
estReviewsPerLevel == 100
\* const avgIntervalHours = 20.5, AVG_EXTRA_HOURS_PER_MISTAKE = 20.5: in half hours
avgIntervalHalfHours == 41
\* if (totalWrong >= 4) leechCount++
LeechWrong == 4

\* null / undefined is the empty tuple; a present value v is <<v>>
NULL == <<>>
Some(v) == <<v>>

VARIABLES
    calls,         \* nextWindow: the calls made on one another's results, each
                   \* [availableAt, value, fallback]
    pc,            \* simulateToGuru: "idle", "loop" (at the while test), "done"
    startDate,     \* simulateToGuru: argument
    currentStage,  \* simulateToGuru: argument
    reviewDate,    \* simulateToGuru: local
    stage,         \* simulateToGuru: local
    iterations,    \* simulateToGuru: loop bodies executed since the call
    snaps,         \* simulateToGuru: nextWindow calls made since the call
    progressions,  \* fetchWK: the level progressions received so far
    phase,         \* run/render: "fetching", then "rendered"
    _currentLevel, \* let _currentLevel
    _stats,        \* let _stats, set by render of src/app.js
    _statsLatest,  \* let _stats, set by render of the revision that keeps
                   \* the latest attempt per level (src/unnamed/part_000)
    clock,         \* the instant new Date() returns
    _activePace,   \* let _activePace
    pred,          \* updatePrediction: NULL, or the last prediction shown,
                   \* [now, left, date]
    assignments,   \* fetchWK: the assignments received so far
    nextLevel,     \* render: NULL, or the result of computeNextLevel with
                   \* the instant it read as now
    reviewStats,   \* fetchWK: the review statistics received so far
    speedup,       \* render: NULL, or what computeSpeedup returned and what
                   \* renderSpeedup computed (simulated ideal pace)
    speedupFixed,  \* the same for the revision with the fixed ideal pace
                   \* (src/app.js from line 735)
    ui,            \* the page: whether #loading, #input-card and #results
                   \* are displayed, and the message of #error-box if shown
    responses      \* fetchWK: how each request of the run was answered

windowVars == <<calls>>
simVars == <<pc, startDate, currentStage, reviewDate, stage, iterations, snaps>>
statsVars == <<progressions, phase, _currentLevel, _stats, _statsLatest>>
forecastVars == <<clock, _activePace, pred>>
levelUpVars == <<assignments, nextLevel>>
speedupVars == <<reviewStats, speedup, speedupFixed>>
uiVars == <<ui, responses>>
vars == <<windowVars, simVars, statsVars, forecastVars, levelUpVars, speedupVars, uiVars>>

\* ---------------------------------------------------------------- dates
\* candidate.setDate(candidate.getDate() + dayOffset): same time of day,
\* dayOffset days later
SetDatePlus(d, dayOffset) == d + dayOffset * DAY

\* candidate.setHours(h, 0, 0, 0): same day, h o'clock sharp
SetHours(d, h) == (d \div DAY) * DAY + h * HOUR

\* ---------------------------------------------------------------- nextWindow
\* mutant of ScanHours: candidate >= d
RECURSIVE ScanHoursOrEqual(_, _, _)
ScanHoursOrEqual(candidate, d, i) ==
    IF i > Len(REVIEW_WINDOWS) THEN NULL
    ELSE LET c == SetHours(candidate, REVIEW_WINDOWS[i])
         IN IF c >= d THEN Some(c) ELSE ScanHoursOrEqual(c, d, i + 1)

\* mutant of ScanHours: the hours are tried latest first
RECURSIVE ScanHoursReversed(_, _, _)
ScanHoursReversed(candidate, d, i) ==
    IF i > Len(REVIEW_WINDOWS) THEN NULL
    ELSE LET c == SetHours(candidate, REVIEW_WINDOWS[Len(REVIEW_WINDOWS) + 1 - i])
         IN IF c > d THEN Some(c) ELSE ScanHoursReversed(c, d, i + 1)

\* The inner loop: for (const h of hours) { candidate.setHours(h, 0, 0, 0);
\* if (candidate > d) return new Date(candidate) }.  i is the position in
\* hours; the result is the candidate found, or NULL when the hours are
\* exhausted.
RECURSIVE ScanHours(_, _, _)
ScanHours(candidate, d, i) ==
    IF i > Len(REVIEW_WINDOWS) THEN NULL
    ELSE LET c == SetHours(candidate, REVIEW_WINDOWS[i])
         IN IF c > d THEN Some(c) ELSE ScanHours(c, d, i + 1)

\* The outer loop over dayOffset, and the fallback "return d".
RECURSIVE ScanDays(_, _)
ScanDays(d, dayOffset) ==
    IF dayOffset > MaxDayOffset THEN [value |-> d, fallback |-> TRUE]
    ELSE LET found == ScanHours(SetDatePlus(d, dayOffset), d, 1)
         IN IF found # NULL THEN [value |-> found[1], fallback |-> FALSE]
            ELSE ScanDays(d, dayOffset + 1)

\* mutant of nextWindowResult: the scan starts on the following day
nextWindowFromTomorrow(t) == ScanDays(t, 1)

nextWindowResult(t) == ScanDays(t, 0)

nextWindow(t) == nextWindowResult(t).value

\* ---------------------------------------------------------------- inputs
StartInstants == 0 .. ((MaxStartDay + 1) * DAY - 1)
Stages == 0 .. MaxStage

\* ---------------------------------------------------------------- actions
WindowCall(t) ==
    [availableAt |-> t,
     value |-> nextWindow(t),
     fallback |-> nextWindowResult(t).fallback]

\* a caller applies nextWindow to an instant
CallNextWindow ==
    /\ \E t \in StartInstants : calls' = <<WindowCall(t)>>
    /\ UNCHANGED <<simVars, statsVars, forecastVars, levelUpVars, speedupVars, uiVars>>

\* a caller applies nextWindow to the result of the previous call
CallNextWindowAgain ==
    /\ Len(calls) > 0
    /\ Len(calls) < MaxChain
    /\ calls' = Append(calls, WindowCall(calls[Len(calls)].value))
    /\ UNCHANGED <<simVars, statsVars, forecastVars, levelUpVars, speedupVars, uiVars>>

\* simulateToGuru(startDate, currentStage): entry, up to the while test
SimCall ==
    /\ pc = "idle"
    /\ \E s \in StartInstants, k \in Stages :
          /\ startDate' = s
          /\ currentStage' = k
          /\ reviewDate' = s
          /\ stage' = k
    /\ iterations' = 0
    /\ snaps' = 0
    /\ pc' = "loop"
    /\ UNCHANGED <<windowVars, statsVars, forecastVars, levelUpVars, speedupVars, uiVars>>

\* the loop test, as a mutant would have it: stage <= 4
LoopTestInclusive(s) == s <= GuruStage

\* while (stage < 4)
LoopTest(s) == s < GuruStage

\* the instant the item becomes available, as a mutant would have it:
\* the interval is left out
AvailableNoInterval(r, s) == r

\* const availableAt = new Date(reviewDate.getTime() + SRS_INTERVALS_H[stage] * 3600000)
\* (the table is indexed from 0 in the code, from 1 here)
AvailableAfter(r, s) == r + SRS_INTERVALS_H[s + 1] * HOUR

\* one loop body
SimStep ==
    /\ pc = "loop"
    /\ LoopTest(stage)
    /\ reviewDate' = nextWindow(AvailableAfter(reviewDate, stage))
    /\ stage' = stage + 1
    /\ iterations' = iterations + 1
    /\ snaps' = snaps + 1
    /\ UNCHANGED <<pc, startDate, currentStage, windowVars, statsVars, forecastVars, levelUpVars, speedupVars, uiVars>>

\* the loop test fails: return reviewDate
SimReturn ==
    /\ pc = "loop"
    /\ ~LoopTest(stage)
    /\ pc' = "done"
    /\ UNCHANGED <<startDate, currentStage, reviewDate, stage, iterations, snaps, windowVars, statsVars, forecastVars, levelUpVars, speedupVars, uiVars>>

\* the caller has taken the result; the next call may start
SimDone ==
    /\ pc = "done"
    /\ pc' = "idle"
    /\ UNCHANGED <<startDate, currentStage, reviewDate, stage, iterations, snaps, windowVars, statsVars, forecastVars, levelUpVars, speedupVars, uiVars>>

\* ---------------------------------------------------------------- sequences
Range(seq) == {seq[i] : i \in 1 .. Len(seq)}

RECURSIVE SumSeq(_)
SumSeq(seq) == IF seq = <<>> THEN 0 ELSE Head(seq) + SumSeq(Tail(seq))

\* Array.prototype.sort with a comparator (a, b) => key(a) - key(b): ascending
\* by key, and stable, so equal keys keep their order.  keys[i] is the key of
\* seq[i]; an element's place is the number of elements that go before it.
SortPlace(keys, i) ==
    1 + Cardinality({j \in 1 .. Len(keys) :
                        keys[j] < keys[i] \/ (keys[j] = keys[i] /\ j < i)})

SortByKeys(seq, keys) ==
    [k \in 1 .. Len(seq) |->
        seq[CHOOSE i \in 1 .. Len(seq) : SortPlace(keys, i) = k]]

\* durs.slice(-n)
SliceLast(seq, n) ==
    IF Len(seq) <= n THEN seq ELSE SubSeq(seq, Len(seq) - n + 1, Len(seq))

\* a || b on numbers: b when a is 0 (NaN and undefined do not arise: the
\* index is within the list and the dates are valid)
OrElse(a, b) == IF a = 0 THEN b ELSE a

\* ---------------------------------------------------------------- run segmentation
StartedAtKeys(progs) == [i \in 1 .. Len(progs) |-> progs[i].started_at]
LevelKeys(progs) == [i \in 1 .. Len(progs) |-> progs[i].level]

\* the test that moves the run start, as a mutant would have it: no level cap
IsRestartUncapped(level, prevLevel) == level <= prevLevel

\* if (p.data.level <= prevLevel && p.data.level <= 5)
IsRestart(level, prevLevel) == level <= prevLevel /\ level <= RestartLevelCap

\* for (const p of sorted) { ... prevLevel = p.data.level }
RECURSIVE RunStartWalk(_, _, _, _)
RunStartWalk(sorted, i, runStartDate, prevLevel) ==
    IF i > Len(sorted) THEN runStartDate
    ELSE RunStartWalk(sorted, i + 1,
                      IF IsRestart(sorted[i].level, prevLevel)
                      THEN sorted[i].started_at ELSE runStartDate,
                      sorted[i].level)

\* getCurrentRunStart of src/app.js: NULL or Some(instant)
getCurrentRunStart(progs) ==
    IF Len(progs) = 0 THEN NULL
    ELSE LET sorted == SortByKeys(progs, StartedAtKeys(progs))
         IN Some(RunStartWalk(sorted, 1, sorted[1].started_at, 0))

\* the run filter, as a mutant would have it: started_at > runStart
InCurrentRunStrict(p, runStart) ==
    p.started_at > (IF runStart = NULL THEN 0 ELSE runStart[1])

\* new Date(p.data.started_at) >= runStart  (runStart null compares as 0)
InCurrentRun(p, runStart) ==
    p.started_at >= (IF runStart = NULL THEN 0 ELSE runStart[1])

\* getLatestRun of src/unnamed/part_000: per level the attempt started last
\* (the first one met among equals), in level order
LatestIndexOf(progs, lvl) ==
    CHOOSE i \in 1 .. Len(progs) :
        /\ progs[i].level = lvl
        /\ \A j \in 1 .. Len(progs) :
              progs[j].level = lvl =>
                  \/ progs[j].started_at < progs[i].started_at
                  \/ (progs[j].started_at = progs[i].started_at /\ j >= i)

getLatestRun(progs) ==
    LET kept == {i \in 1 .. Len(progs) : i = LatestIndexOf(progs, progs[i].level)}
        byLevel == SelectSeq([i \in 1 .. Len(progs) |-> i], LAMBDA i : i \in kept)
        values == [k \in 1 .. Len(byLevel) |-> progs[byLevel[k]]]
    IN SortByKeys(values, LevelKeys(values))

\* ---------------------------------------------------------------- computeStats
\* the filter of done, as a mutant would have it: level <= currentLevel
IsDoneInclusive(p, currentLevel) ==
    p.passed_at # NULL /\ p.abandoned_at = NULL /\ p.level <= currentLevel

\* p.data.passed_at && !p.data.abandoned_at && p.data.level < currentLevel
IsDone(p, currentLevel) ==
    p.passed_at # NULL /\ p.abandoned_at = NULL /\ p.level < currentLevel

\* the guard, as a mutant would have it: done.length < 1
TooFewNone(done) == Len(done) < 1

\* if (done.length < 2) return null
TooFew(done) == Len(done) < MinDone

\* (new Date(p.data.passed_at) - new Date(p.data.started_at)) / 864e5: the
\* duration, kept in half hours; it is d days when it equals d * DAY
Duration(p) == p.passed_at[1] - p.started_at

\* the median's place, as a mutant would have it: the lower middle
MedianIndexLower(n) == (n - 1) \div 2

\* Math.floor(sorted.length / 2), Math.floor(sorted.length * 0.25) and
\* Math.floor(sorted.length * 0.75): 0-based places in sorted
MedianIndex(n) == n \div 2

\* the fast percentile's place, as a mutant would have it: the minimum
FastIndexFirst(n) == 0

FastIndex(n) == n \div 4

\* the slow percentile's place, as a mutant would have it: the maximum
SlowIndexLast(n) == n - 1

\* the slow percentile's place, as a mutant would have it: the fast one's
SlowIndexQuarter(n) == n \div 4

SlowIndex(n) == (3 * n) \div 4

\* the statistics of the list done; an average is the pair [num, den] of the
\* sum and the count it divides
StatsOf(done) ==
    LET durs == [i \in 1 .. Len(done) |-> Duration(done[i])]
        sorted == SortByKeys(durs, durs)
        n == Len(sorted)
        rec == SliceLast(durs, RecentCount)
    IN [avg |-> [num |-> SumSeq(durs), den |-> Len(durs)],
        median |-> sorted[MedianIndex(n) + 1],
        fast |-> OrElse(sorted[FastIndex(n) + 1], sorted[1]),
        slow |-> OrElse(sorted[SlowIndex(n) + 1], sorted[n]),
        recent |-> [num |-> SumSeq(rec), den |-> Len(rec)],
        durs |-> durs,
        sorted |-> sorted,
        done |-> done]

\* const currentRun = progressions.filter(p => new Date(p.data.started_at) >= runStart)
currentRunOf(progs) ==
    LET runStart == getCurrentRunStart(progs)
    IN SelectSeq(progs, LAMBDA p : InCurrentRun(p, runStart))

\* computeStats of src/app.js: NULL or Some(statistics)
computeStats(progs, currentLevel) ==
    LET currentRun == currentRunOf(progs)
        done == SelectSeq(currentRun, LAMBDA p : IsDone(p, currentLevel))
    IN IF TooFew(done) THEN NULL
       ELSE Some(StatsOf(SortByKeys(done, LevelKeys(done))))

\* computeStats of src/unnamed/part_000, as a mutant would have it:
\* abandoned attempts count as done
computeStatsLatestAbandoned(progs, currentLevel) ==
    LET latest == getLatestRun(progs)
        done == SelectSeq(latest, LAMBDA p : p.passed_at # NULL /\ p.level < currentLevel)
    IN IF TooFew(done) THEN NULL
       ELSE Some(StatsOf(done))

\* computeStats of src/unnamed/part_000: NULL or Some(statistics)
computeStatsLatest(progs, currentLevel) ==
    LET latest == getLatestRun(progs)
        done == SelectSeq(latest, LAMBDA p : IsDone(p, currentLevel))
    IN IF TooFew(done) THEN NULL
       ELSE Some(StatsOf(done))

\* ---------------------------------------------------------------- inputs
\* level numbers: two low ones and one above the restart cap
AttemptLevels == {1, 2, RestartLevelCap + 1}
\* the learner's level reported by the user record: a level that attempts
\* of the history are at, below and above
UserLevels == {2, RestartLevelCap + 1}
\* level progressions of any kind: open, passed at once, passed after a day,
\* passed and abandoned; started on day 0 or day 1
AttemptOutcomes(s) ==
    {<<NULL, NULL>>, <<Some(s), NULL>>, <<Some(s + DAY), NULL>>,
     <<Some(s + DAY), Some(s + 2 * DAY)>>}
AnyAttempts ==
    UNION {{[level |-> l, started_at |-> s, passed_at |-> o[1], abandoned_at |-> o[2]] :
               l \in AttemptLevels, o \in AttemptOutcomes(s)} : s \in {0, DAY}}
\* the durations of the passed levels of an unbroken run, in days
RunDurationDays == {0, 5, 7, 9, 20}

\* ---------------------------------------------------------------- fetch and render
\* progressions = progressions.concat(j.data), one record of any kind
FetchAttempt ==
    /\ phase = "fetching"
    /\ Len(progressions) < MaxAttempts
    /\ \E p \in AnyAttempts : progressions' = Append(progressions, p)
    /\ UNCHANGED <<phase, _currentLevel, _stats, _statsLatest, windowVars, simVars, forecastVars, levelUpVars, speedupVars, uiVars>>

\* progressions = progressions.concat(j.data), the next level of an unbroken
\* run: started when the previous one was passed, passed d days later
FetchPassedLevel ==
    /\ phase = "fetching"
    /\ Len(progressions) < MaxRun
    /\ \E d \in RunDurationDays :
          LET n == Len(progressions)
              s == IF n = 0 THEN 0 ELSE progressions[n].passed_at[1]
          IN progressions' = Append(progressions,
                 [level |-> n + 1, started_at |-> s,
                  passed_at |-> Some(s + d * DAY), abandoned_at |-> NULL])
    /\ UNCHANGED <<phase, _currentLevel, _stats, _statsLatest, windowVars, simVars, forecastVars, levelUpVars, speedupVars, uiVars>>

\* ---------------------------------------------------------------- UI helpers
\* setLoading(on): #loading shown and #input-card hidden, or the reverse
setLoading(page, on) == [page EXCEPT !.loading = on, !.input = ~on]

\* showError, as a mutant would have it: nothing is shown
showErrorNothing(page, msg) == page

\* showError(msg)
showError(page, msg) == [page EXCEPT !.error = Some(msg)]

\* clearError()
clearError(page) == [page EXCEPT !.error = NULL]

\* the end of render: #input-card and #loading hidden, #results shown
showResults(page) == [page EXCEPT !.input = FALSE, !.loading = FALSE, !.results = TRUE]

\* the messages of #error-box
KeepGoing == "Need at least 2 completed level progressions to predict. Keep going!"
NoToken == "Please enter your API key."
InvalidKey == "Invalid API key"
ApiError == "API error"
NetworkError == "Failed to fetch"

\* ---------------------------------------------------------------- updatePrediction
\* a pace figure is a rational number [num, den] of half hours per level
Rat(n) == [num |-> n, den |-> 1]

\* new Date(ms) keeps the whole part of a fractional time value
Trunc(a, b) == IF a >= 0 THEN a \div b ELSE 0 - ((0 - a) \div b)

\* addDays(d, n) = new Date(d.getTime() + n * 864e5), n the rational q
addDays(d, q) == d + Trunc(q.num, q.den)

\* const left = 60 - _currentLevel
levelsLeft(lvl) == CeilingLevel - lvl

PaceKeys == {"fast", "median", "avg", "recent", "slow"}

\* const paceMap = { fast: stats.fast, median: stats.median, avg: stats.avg,
\*                   slow: stats.slow, recent: stats.recent }
paceMap(stats) ==
    [k \in PaceKeys |->
        CASE k = "fast" -> Rat(stats.fast)
          [] k = "median" -> Rat(stats.median)
          [] k = "avg" -> stats.avg
          [] k = "slow" -> Rat(stats.slow)
          [] k = "recent" -> stats.recent]

\* const dpL = paceMap[_activePace] || stats.median
paceUsed(stats, activePace) ==
    IF paceMap(stats)[activePace].num = 0 THEN Rat(stats.median)
    ELSE paceMap(stats)[activePace]

\* const pred = addDays(new Date(), left * dpL)
predictedDate(stats, activePace, lvl, now) ==
    LET dpL == paceUsed(stats, activePace)
    IN addDays(now, [num |-> levelsLeft(lvl) * dpL.num, den |-> dpL.den])

\* updatePrediction(): if (!_stats) return; otherwise the prediction shown
updatePrediction(stats, activePace, lvl, now, shown) ==
    IF stats = NULL THEN shown
    ELSE Some([now |-> now,
               left |-> levelsLeft(lvl),
               date |-> predictedDate(stats[1], activePace, lvl, now)])

\* ---------------------------------------------------------------- computeNextLevel
\* simulateToGuru(startDate, currentStage) as a function: the loop of SimStep
\* run to its end
RECURSIVE simulateLoop(_, _)
simulateLoop(r, s) ==
    IF LoopTest(s) THEN simulateLoop(nextWindow(AvailableAfter(r, s)), s + 1)
    ELSE r

\* simulateToGuru, as a mutant would have it: the loop test inverted, so
\* that no review is simulated below guru
simulateToGuruNoLoop(start, fromStage) == start

simulateToGuru(start, fromStage) == simulateLoop(start, fromStage)

\* the blocking test, as a mutant would have it: burned items included
isBlockingBurnedToo(d) ==
    /\ d.subject_type \in {"radical", "kanji"}
    /\ d.srs_stage < GuruStage
    /\ d.started_at # NULL

\* (d.subject_type === 'radical' || d.subject_type === 'kanji') &&
\* d.srs_stage < 4 && !d.burned_at && d.started_at
isBlocking(d) ==
    /\ d.subject_type \in {"radical", "kanji"}
    /\ d.srs_stage < GuruStage
    /\ d.burned_at = NULL
    /\ d.started_at # NULL

\* const availableAt = d.available_at ? new Date(d.available_at) : now;
\* const startFrom = availableAt <= now ? now : availableAt;
\* return { guruDate: simulateToGuru(startFrom, stage), stage, type, availableAt }
guruEntry(d, now) ==
    LET availableAt == IF d.available_at # NULL THEN d.available_at[1] ELSE now
        startFrom == IF availableAt <= now THEN now ELSE availableAt
    IN [guruDate |-> simulateToGuru(startFrom, d.srs_stage),
        stage |-> d.srs_stage,
        type |-> d.subject_type,
        availableAt |-> availableAt]

\* the level-up instant without blocking items, as a mutant would have it
imminentNow(now) == now

\* levelUpDate: nextWindow(now)
imminent(now) == nextWindow(now)

\* the position among the kanji, as a mutant would have it: always the last
kanjiPositionLast(n) == n - 1

\* Math.max(0, sortedKanji.length - 1 - Math.floor(kanjiItems.length * 0.1)),
\* counted from 0
kanjiPosition(n) ==
    IF n - 1 - (n \div 10) > 0 THEN n - 1 - (n \div 10) ELSE 0

\* the level-up instant with radicals only, as a mutant would have it: the
\* earliest guru date
radicalsLevelUpFirst(guruDates) == guruDates[Len(guruDates)].guruDate

\* levelUpDate = guruDates[0].guruDate
radicalsLevelUp(guruDates) == guruDates[1].guruDate

\* [0,1,2,3].map(s => ({ stage: s, count: ... })).filter(s => s.count > 0);
\* the labels are left out
stageBreakdown(blocking) ==
    LET counts == [k \in 1 .. GuruStage |->
                     [stage |-> k - 1,
                      count |-> Cardinality({i \in 1 .. Len(blocking) :
                                               blocking[i].srs_stage = k - 1})]]
    IN SelectSeq(counts, LAMBDA c : c.count > 0)

computeNextLevel(items, now) ==
    LET blocking == SelectSeq(items, isBlocking)
        unsorted == [i \in 1 .. Len(blocking) |-> guruEntry(blocking[i], now)]
        \* guruDates.sort((a, b) => b.guruDate - a.guruDate)
        guruDates == SortByKeys(unsorted,
                         [i \in 1 .. Len(unsorted) |-> 0 - unsorted[i].guruDate])
        kanjiItems == SelectSeq(guruDates, LAMBDA g : g.type = "kanji")
        sortedKanji == SortByKeys(kanjiItems,
                         [i \in 1 .. Len(kanjiItems) |-> kanjiItems[i].guruDate])
    IN IF Len(blocking) = 0
       THEN [levelUpDate |-> imminent(now), blockingCount |-> 0,
             criticalItem |-> NULL, stageBreakdown |-> NULL]
       ELSE [levelUpDate |->
                 IF Len(kanjiItems) > 0
                 THEN sortedKanji[kanjiPosition(Len(sortedKanji)) + 1].guruDate
                 ELSE radicalsLevelUp(guruDates),
             blockingCount |-> Len(blocking),
             criticalItem |-> Some(guruDates[1]),
             stageBreakdown |-> Some(stageBreakdown(blocking))]

\* ---------------------------------------------------------------- computeSpeedup
\* rational numbers [num, den] with den > 0
RatLE(a, b) == a.num * b.den <= b.num * a.den
RatEq(a, b) == a.num * b.den = b.num * a.den
RatMax(a, b) == IF RatLE(a, b) THEN b ELSE a
RatMin(a, b) == IF RatLE(a, b) THEN a ELSE b
RatAdd(a, b) == [num |-> a.num * b.den + b.num * a.den, den |-> a.den * b.den]
RatSub(a, b) == [num |-> a.num * b.den - b.num * a.den, den |-> a.den * b.den]
RatMul(a, b) == [num |-> a.num * b.num, den |-> a.den * b.den]

\* const MINIMUM_DAYS_PER_LEVEL = 3.42: 3.42 x 48 half hours
MINIMUM_DAYS_PER_LEVEL == [num |-> 4104, den |-> 25]

\* Math.min(...) * 0.4
BlendFactor == [num |-> 2, den |-> 5]

\* calcWindowLevelDays(lessonTime): a radical from lesson to guru, then a
\* kanji from there to guru
calcWindowLevelDays(lessonTime) ==
    LET radicalGuruDate == simulateToGuru(lessonTime, 0)
        kanjiGuruDate == simulateToGuru(radicalGuruDate, 0)
    IN [days |-> kanjiGuruDate - lessonTime, levelUpDate |-> kanjiGuruDate]

\* the first lesson, as a mutant would have it: not moved to a window
firstLessonNow(now) == now

\* const firstLesson = nextWindow(new Date())
firstLessonAt(now) == nextWindow(now)

\* calcWindowRoadTo60()
calcWindowRoadTo60(lvl, now) ==
    LET left == levelsLeft(lvl)
        firstLesson == firstLessonAt(now)
        windowDaysPerLevel == calcWindowLevelDays(firstLesson).days
    IN [firstLesson |-> firstLesson,
        windowDaysPerLevel |-> windowDaysPerLevel,
        windowDate |-> addDays(now, Rat(left * windowDaysPerLevel))]

\* the loss to windows, as a mutant would have it: not cut off at 0
windowLostSigned(median, ideal) == RatSub(Rat(median), ideal)

\* Math.max(0, median - ideal)
windowLost(median, ideal) == RatMax(Rat(0), RatSub(Rat(median), ideal))

\* the accuracy, as a mutant would have it: 0 without answers
accuracyOrZero(right, total) ==
    IF total > 0 THEN [num |-> right * 100, den |-> total] ELSE Rat(0)

\* total > 0 ? (correct / total) * 100 : 100
\* totalAnswers > 0 ? ((totalAnswers - totalWrong) / totalAnswers * 100) : 100
accuracyOf(right, total) ==
    IF total > 0 THEN [num |-> right * 100, den |-> total] ELSE Rat(100)

\* the sums of the loop over reviewStats
Correct(rs) == SumSeq([i \in 1 .. Len(rs) |-> rs[i].meaning_correct + rs[i].reading_correct])
Incorrect(rs) == SumSeq([i \in 1 .. Len(rs) |-> rs[i].meaning_incorrect + rs[i].reading_incorrect])

\* computeSpeedup(reviewStats) of the revision with the simulated ideal pace;
\* ideal is the local calcWindowRoadTo60().windowDaysPerLevel
computeSpeedup(rs, stats, lvl, now) ==
    LET correct == Correct(rs)
        incorrect == Incorrect(rs)
        total == correct + incorrect
        ideal == calcWindowRoadTo60(lvl, now).windowDaysPerLevel
    IN [accuracy |-> accuracyOf(correct, total),
        total |-> total,
        incorrect |-> incorrect,
        \* incorrectRate * estReviewsPerLevel * avgIntervalHours / 24 days
        extraDaysPerLevel |->
            IF total > 0
            THEN [num |-> incorrect * estReviewsPerLevel * avgIntervalHalfHours,
                  den |-> total]
            ELSE Rat(0),
        windowLostPerLevel |-> windowLost(stats.median, Rat(ideal)),
        ideal |-> ideal]

\* renderSpeedup(speedup) of the same revision: what it computes at its own
\* reading of the clock
renderSpeedup(sp, stats, lvl, now) ==
    LET left == levelsLeft(lvl)
        road == calcWindowRoadTo60(lvl, now)
    IN [now |-> now,
        currentDate |-> addDays(now, Rat(left * stats.median)),
        firstLesson |-> road.firstLesson,
        windowDaysPerLevel |-> road.windowDaysPerLevel,
        windowDate |-> road.windowDate,
        noMistakeDate |->
            LET pace == RatMax(Rat(road.windowDaysPerLevel),
                               RatSub(Rat(stats.median), sp.extraDaysPerLevel))
            IN addDays(now, [num |-> left * pace.num, den |-> pace.den])]

\* const speedup = computeSpeedup(data.reviewStats); renderSpeedup(speedup);
\* each reads the clock itself
speedupSection(rs, stats, lvl, now, later) ==
    LET sp == computeSpeedup(rs, stats, lvl, now)
    IN [now |-> now, result |-> sp, shown |-> renderSpeedup(sp, stats, lvl, later)]

\* computeSpeedup(reviewStats, stats) of the revision with the fixed ideal pace
computeSpeedupFixed(rs, stats, lvl) ==
    LET left == levelsLeft(lvl)
        windowLostPerLevel == windowLost(stats.median, MINIMUM_DAYS_PER_LEVEL)
        windowSavingTotal == RatMul(windowLostPerLevel, Rat(left))
        totalWrong == Incorrect(rs)
        totalAnswers == Correct(rs) + totalWrong
        totalExtra == totalWrong * avgIntervalHalfHours
        mistakeDaysLostPerLevel ==
            IF Len(stats.done) > 0 THEN [num |-> totalExtra, den |-> Len(stats.done)]
            ELSE Rat(0)
        mistakeSavingTotal == RatMul(mistakeDaysLostPerLevel, Rat(left))
    IN [windowLostPerLevel |-> windowLostPerLevel,
        windowSavingTotal |-> windowSavingTotal,
        mistakeDaysLostPerLevel |-> mistakeDaysLostPerLevel,
        mistakeSavingTotal |-> mistakeSavingTotal,
        combinedSaving |->
            RatAdd(RatMax(windowSavingTotal, mistakeSavingTotal),
                   RatMul(RatMin(windowSavingTotal, mistakeSavingTotal), BlendFactor)),
        overallAcc |-> accuracyOf(totalAnswers - totalWrong, totalAnswers),
        totalWrong |-> totalWrong,
        totalAnswers |-> totalAnswers,
        leechCount |-> Cardinality({i \in 1 .. Len(rs) :
            rs[i].meaning_incorrect + rs[i].reading_incorrect >= LeechWrong})]

\* the time between the clock readings of computeSpeedup and renderSpeedup
RenderDelays == {0, 2 * HOUR}

\* render(data): _currentLevel = lvl; _stats = computeStats(data.progressions, lvl);
\* without statistics it returns, otherwise it goes on to updatePrediction(),
\* with assignments to computeNextLevel(data.assignments) and with review
\* statistics to computeSpeedup and renderSpeedup
Render(lvl) ==
    /\ phase = "fetching"
    /\ phase' = "rendered"
    /\ _currentLevel' = lvl
    /\ _stats' = computeStats(progressions, lvl)
    /\ _statsLatest' = computeStatsLatest(progressions, lvl)
    /\ pred' = updatePrediction(_stats', _activePace, lvl, clock, pred)
    /\ nextLevel' = IF _stats' # NULL /\ Len(assignments) > 0
                        THEN Some([now |-> clock,
                                   result |-> computeNextLevel(assignments, clock)])
                        ELSE nextLevel
    /\ \E delay \in RenderDelays :
          /\ speedup' = IF _stats' # NULL /\ Len(reviewStats) > 0
                            THEN Some(speedupSection(reviewStats, _stats'[1], lvl,
                                                     clock, clock + delay))
                            ELSE speedup
          /\ speedupFixed' = IF _stats' # NULL /\ Len(reviewStats) > 0
                                 THEN Some(computeSpeedupFixed(reviewStats, _stats'[1], lvl))
                                 ELSE speedupFixed
    /\ ui' = IF _stats' = NULL THEN showError(setLoading(ui, FALSE), KeepGoing)
             ELSE showResults(ui)
    /\ UNCHANGED <<progressions, clock, _activePace, assignments, reviewStats, responses, windowVars, simVars>>

\* setPace(p): _activePace = p; updatePrediction()
setPace(p) ==
    /\ phase = "rendered"
    /\ _activePace' = p
    /\ pred' = updatePrediction(_stats, p, _currentLevel, clock, pred)
    /\ UNCHANGED <<clock, statsVars, windowVars, simVars, levelUpVars, speedupVars, uiVars>>

\* the instants the clock is read at, and the instant an item may be
\* available at
NowInstants == {DAY + 8 * HOUR, DAY + 19 * HOUR}
AvailableInstant == DAY + 12 * HOUR

\* time passes before the data is rendered
ClockAdvance ==
    /\ phase = "fetching"
    /\ \E t \in NowInstants : t > clock /\ clock' = t
    /\ UNCHANGED <<_activePace, pred, statsVars, windowVars, simVars, levelUpVars, speedupVars, uiVars>>

\* the states an assignment of the current level may be in: waiting for its
\* last apprentice review, two reviews from guru, at guru, burned, not started
ItemStates ==
    {[srs_stage |-> 3, burned_at |-> NULL, started_at |-> Some(0), available_at |-> NULL],
     [srs_stage |-> 2, burned_at |-> NULL, started_at |-> Some(0),
      available_at |-> Some(AvailableInstant)],
     [srs_stage |-> 4, burned_at |-> NULL, started_at |-> Some(0), available_at |-> NULL],
     [srs_stage |-> 3, burned_at |-> Some(DAY), started_at |-> Some(0), available_at |-> NULL],
     [srs_stage |-> 0, burned_at |-> NULL, started_at |-> NULL, available_at |-> NULL]}

WithType(st, type) ==
    [subject_type |-> type, srs_stage |-> st.srs_stage, burned_at |-> st.burned_at,
     started_at |-> st.started_at, available_at |-> st.available_at]

AnyAssignments ==
    {WithType(st, type) : st \in ItemStates, type \in {"radical", "kanji"}}
        \cup {WithType(st, "vocabulary") : st \in {x \in ItemStates : x.srs_stage >= 3 /\ x.burned_at = NULL}}

\* fetchWK: one more assignment of `assignments?levels=...&started=true`
FetchAssignment ==
    /\ phase = "fetching"
    /\ Len(assignments) < MaxItems
    /\ \E a \in AnyAssignments : assignments' = Append(assignments, a)
    /\ UNCHANGED <<nextLevel, statsVars, forecastVars, windowVars, simVars, speedupVars, uiVars>>

\* fetchWK: the kanji of the level, unlocked together and so in one state
FetchKanjiBatch ==
    /\ phase = "fetching"
    /\ Len(assignments) <= MaxItems
    /\ \E st \in {x \in ItemStates : x.srs_stage < GuruStage /\ x.burned_at = NULL /\ x.started_at # NULL} :
          assignments' = assignments \o [i \in 1 .. BatchSize |-> WithType(st, "kanji")]
    /\ UNCHANGED <<nextLevel, statsVars, forecastVars, windowVars, simVars, speedupVars, uiVars>>

\* fetchWK: a history of two passed levels, received in one response
ShortHistory ==
    <<[level |-> 1, started_at |-> 0, passed_at |-> Some(7 * DAY), abandoned_at |-> NULL],
      [level |-> 2, started_at |-> 7 * DAY, passed_at |-> Some(16 * DAY), abandoned_at |-> NULL]>>

\* a history of two levels passed in 2 and 3 days
QuickHistory ==
    <<[level |-> 1, started_at |-> 0, passed_at |-> Some(2 * DAY), abandoned_at |-> NULL],
      [level |-> 2, started_at |-> 2 * DAY, passed_at |-> Some(5 * DAY), abandoned_at |-> NULL]>>

FetchQuickHistory ==
    /\ phase = "fetching"
    /\ progressions = <<>>
    /\ progressions' = QuickHistory
    /\ UNCHANGED <<phase, _currentLevel, _stats, _statsLatest, windowVars, simVars, forecastVars, levelUpVars, speedupVars, uiVars>>

\* review statistics of one subject: no answers, all correct, one mistake,
\* a leech
ReviewRecords ==
    {[meaning_correct |-> 0, reading_correct |-> 0, meaning_incorrect |-> 0, reading_incorrect |-> 0],
     [meaning_correct |-> 3, reading_correct |-> 2, meaning_incorrect |-> 0, reading_incorrect |-> 0],
     [meaning_correct |-> 1, reading_correct |-> 1, meaning_incorrect |-> 1, reading_incorrect |-> 0],
     [meaning_correct |-> 0, reading_correct |-> 1, meaning_incorrect |-> 2, reading_incorrect |-> 2]}

\* fetchWK: one more record of review_statistics
FetchReviewStat ==
    /\ phase = "fetching"
    /\ Len(reviewStats) < MaxReviews
    /\ \E r \in ReviewRecords : reviewStats' = Append(reviewStats, r)
    /\ UNCHANGED <<speedup, speedupFixed, statsVars, forecastVars, levelUpVars, windowVars, simVars, uiVars>>

FetchHistory ==
    /\ phase = "fetching"
    /\ progressions = <<>>
    /\ progressions' = ShortHistory
    /\ UNCHANGED <<phase, _currentLevel, _stats, _statsLatest, windowVars, simVars, forecastVars, levelUpVars, speedupVars, uiVars>>

\* the pace pills can be clicked while the results are displayed
PillsShown == ui.results

\* a pace pill is clicked
SetAnyPace == PillsShown /\ \E p \in PaceKeys : setPace(p)

\* reset, as a mutant would have it: the selected pace is kept
resetKeepingPace(activePace) == activePace

\* reset(): _activePace = 'median'
resetPace(activePace) == "median"

\* reset(): the reset button is displayed with the results
reset ==
    /\ ui.results
    /\ ui' = [ui EXCEPT !.input = TRUE, !.results = FALSE]
    /\ _stats' = NULL
    /\ _activePace' = resetPace(_activePace)
    /\ UNCHANGED <<progressions, phase, _currentLevel, _statsLatest, clock, pred, responses,
                   levelUpVars, speedupVars, windowVars, simVars>>

NoResponses == [r \in {"user", "progressions", "reviewStats", "assignments"} |-> "none"]

\* run(): without a token the message and nothing else; otherwise
\* clearError(), setLoading(true) and fetchWK begins with nothing received
run ==
    /\ ui.input
    /\ phase # "fetching"
    /\ \E token \in {"", "token"} :
          IF token = ""
          THEN /\ ui' = showError(ui, NoToken)
               /\ UNCHANGED <<phase, progressions, assignments, reviewStats, responses>>
          ELSE /\ ui' = setLoading(clearError(ui), TRUE)
               /\ phase' = "fetching"
               /\ progressions' = <<>>
               /\ assignments' = <<>>
               /\ reviewStats' = <<>>
               /\ responses' = NoResponses
    /\ UNCHANGED <<_currentLevel, _stats, _statsLatest, forecastVars, nextLevel,
                   speedup, speedupFixed, windowVars, simVars>>

\* the catch block, as a mutant would have it: the loading state is left on
CatchStillLoading(source, outcome, msg) ==
    /\ phase' = "failed"
    /\ ui' = showError(ui, msg)
    /\ responses' = [responses EXCEPT ![source] = outcome]
    /\ UNCHANGED <<progressions, _currentLevel, _stats, _statsLatest, forecastVars,
                   levelUpVars, speedupVars, windowVars, simVars>>

\* run(): catch (e) { setLoading(false); showError(e.message) }
Catch(source, outcome, msg) ==
    /\ phase' = "failed"
    /\ ui' = showError(setLoading(ui, FALSE), msg)
    /\ responses' = [responses EXCEPT ![source] = outcome]
    /\ UNCHANGED <<progressions, _currentLevel, _stats, _statsLatest, forecastVars,
                   levelUpVars, speedupVars, windowVars, simVars>>

\* fetchWK: the answer to the user request
RespondUser ==
    /\ phase = "fetching"
    /\ responses.user = "none"
    /\ \/ /\ responses' = [responses EXCEPT !.user = "ok"]
          /\ UNCHANGED <<ui, statsVars, forecastVars, levelUpVars, speedupVars, windowVars, simVars>>
       \/ Catch("user", "unauthorized", InvalidKey)
       \/ Catch("user", "not_ok", ApiError)
       \/ Catch("user", "rejected", NetworkError)

\* the pages of level progressions: one open level; two passed levels; one
\* more passed level
ProgressionPages ==
    {<<[level |-> 1, started_at |-> 0, passed_at |-> NULL, abandoned_at |-> NULL]>>,
     ShortHistory,
     <<[level |-> 3, started_at |-> 16 * DAY, passed_at |-> Some(21 * DAY), abandoned_at |-> NULL]>>}

\* fetchWK: the answer to the request of one page of level progressions;
\* "more" while the page names a next_url
RespondProgressions ==
    /\ phase = "fetching"
    /\ responses.user = "ok"
    /\ responses.progressions \in {"none", "more"}
    /\ \/ \E page \in ProgressionPages, next \in {"more", "ok"} :
             /\ IF responses.progressions = "none" THEN page[1].level = 1
                ELSE page[1].level = Len(progressions) + 1
             /\ Len(progressions) = 0 \/ next = "ok"
             /\ progressions' = progressions \o page
             /\ responses' = [responses EXCEPT !.progressions = next]
             /\ UNCHANGED <<ui, phase, _currentLevel, _stats, _statsLatest, forecastVars,
                            levelUpVars, speedupVars, windowVars, simVars>>
       \/ Catch("progressions", "not_ok", ApiError)
       \/ Catch("progressions", "rejected", NetworkError)

\* fetchWK: the answer to the review_statistics request; a status that is
\* not ok leaves reviewStats empty
RespondReviewStats ==
    /\ phase = "fetching"
    /\ responses.progressions = "ok"
    /\ responses.reviewStats = "none"
    /\ \/ /\ \E rs \in {<<>>} \cup {<<r>> : r \in ReviewRecords} : reviewStats' = rs
          /\ responses' = [responses EXCEPT !.reviewStats = "ok"]
          /\ UNCHANGED <<ui, speedup, speedupFixed, statsVars, forecastVars, levelUpVars, windowVars, simVars>>
       \/ /\ responses' = [responses EXCEPT !.reviewStats = "not_ok"]
          /\ UNCHANGED <<ui, speedupVars, statsVars, forecastVars, levelUpVars, windowVars, simVars>>
       \/ Catch("reviewStats", "rejected", NetworkError)

\* fetchWK: the answer to the assignments request; a status that is not ok
\* leaves assignments empty
RespondAssignments ==
    /\ phase = "fetching"
    /\ responses.reviewStats \in {"ok", "not_ok"}
    /\ responses.assignments = "none"
    /\ \/ /\ \E as \in {<<>>, <<WithType(CHOOSE st \in ItemStates : st.srs_stage = 2, "kanji")>>} :
                assignments' = as
          /\ responses' = [responses EXCEPT !.assignments = "ok"]
          /\ UNCHANGED <<ui, nextLevel, statsVars, forecastVars, speedupVars, windowVars, simVars>>
       \/ /\ responses' = [responses EXCEPT !.assignments = "not_ok"]
          /\ UNCHANGED <<ui, levelUpVars, statsVars, forecastVars, speedupVars, windowVars, simVars>>
       \/ Catch("assignments", "rejected", NetworkError)

\* run(): fetchWK has returned; render(data, false) at the user's level
RenderFetched ==
    /\ responses.assignments \in {"ok", "not_ok"}
    /\ Render(Len(progressions) + 1)

\* levels around the ceiling, as the user record may report them
ForecastLevels == {CeilingLevel - 1, CeilingLevel, CeilingLevel + 1}

\* render with a level near the ceiling
RenderNearCeiling == \E lvl \in ForecastLevels : Render(lvl)

\* render with the level the user record reports
RenderAny == \E lvl \in UserLevels : Render(lvl)

\* render for a learner who has passed every level fetched
RenderRun == Render(Len(progressions) + 1)

Init ==
    /\ calls = <<>>
    /\ pc = "idle"
    /\ startDate = 0
    /\ currentStage = 0
    /\ reviewDate = 0
    /\ stage = 0
    /\ iterations = 0
    /\ snaps = 0
    /\ progressions = <<>>
    /\ phase = "fetching"
    /\ _currentLevel = 0
    /\ _stats = NULL
    /\ _statsLatest = NULL
    /\ clock = DAY + 8 * HOUR
    /\ _activePace = "median"
    /\ pred = NULL
    /\ assignments = <<>>
    /\ nextLevel = NULL
    /\ reviewStats = <<>>
    /\ speedup = NULL
    /\ speedupFixed = NULL
    /\ ui = [loading |-> TRUE, input |-> FALSE, results |-> FALSE, error |-> NULL]
    /\ responses = NoResponses

\* ---------------------------------------------------------------- specifications
\* the Window Scheduler alone: nextWindow applied to every instant of the
\* bounded range and to its own results
NextWindowCalls ==
    \/ CallNextWindow
    \/ CallNextWindowAgain

SpecWindow == Init /\ [][NextWindowCalls]_vars

\* the Ladder Simulator: simulateToGuru called over and over
NextSim ==
    \/ SimCall
    \/ SimStep
    \/ SimReturn
    \/ SimDone

SpecSim == Init /\ [][NextSim]_vars

\* Pace Statistics over histories of any kind
NextStats ==
    \/ FetchAttempt
    \/ RenderAny

SpecStats == Init /\ [][NextStats]_vars

\* Pace Statistics over unbroken runs of passed levels
NextPace ==
    \/ FetchPassedLevel
    \/ RenderRun

SpecPace == Init /\ [][NextPace]_vars

\* Level-Completion Forecast: unbroken runs, a level near the ceiling, and
\* the pace pills
NextForecast ==
    \/ FetchPassedLevel
    \/ RenderNearCeiling
    \/ SetAnyPace

SpecForecast == Init /\ [][NextForecast]_vars

\* Next-Level-Up Forecast: assignments of every kind, with or without a
\* batch of kanji, rendered at either instant
NextLevelUp ==
    \/ FetchAssignment
    \/ FetchKanjiBatch
    \/ FetchHistory
    \/ ClockAdvance
    \/ RenderAny

SpecLevelUp == Init /\ [][NextLevelUp]_vars

\* Speedup decomposition: a slow or a quick history, review statistics of
\* every kind, rendered near the ceiling at either instant
NextSpeedup ==
    \/ FetchHistory
    \/ FetchQuickHistory
    \/ FetchReviewStat
    \/ ClockAdvance
    \/ RenderNearCeiling

SpecSpeedup == Init /\ [][NextSpeedup]_vars

\* run(), the requests of fetchWK one by one with their answers, render,
\* the pace pills and reset
NextRun ==
    \/ RespondUser
    \/ RespondProgressions
    \/ RespondReviewStats
    \/ RespondAssignments
    \/ RenderFetched
    \/ SetAnyPace
    \/ reset
    \/ run

SpecRun == Init /\ [][NextRun]_vars

\* ---------------------------------------------------------------- Window Scheduler claims
\* the hours the claims name: 09:00 and 18:00
ClaimHours == {9, 18}
IsWindowInstant(w) == \E h \in ClaimHours : w % DAY = h * HOUR
\* the window that immediately follows the window w
FollowingWindow(w) ==
    IF w % DAY = 9 * HOUR THEN w + 9 * HOUR
    ELSE (w \div DAY + 1) * DAY + 9 * HOUR

Max0(n) == IF n > 0 THEN n ELSE 0

\* C4: simulateToGuru runs exactly max(0, 4 - fromStage) loop bodies, each
\* with one nextWindow snap and one stage increment; the count never exceeds
\* that number while the loop runs (so the loop ends), and with
\* fromStage >= 4 the instant returned equals fromInstant.
C4_ExactIterations ==
    /\ pc \in {"loop", "done"} =>
          /\ iterations <= Max0(4 - currentStage)
          /\ snaps = iterations
          /\ stage = currentStage + iterations
    /\ pc = "done" =>
          /\ iterations = Max0(4 - currentStage)
          /\ currentStage >= 4 => (iterations = 0 /\ reviewDate = startDate)

\* C4 witness: a call from stage 1 has returned after three loop bodies
C4_Witness ==
    /\ pc = "done"
    /\ currentStage = 1
    /\ iterations = 3
    /\ reviewDate > startDate

\* the interval table the claim quotes, in hours
ClaimIntervals == <<4, 8, 23, 47>>
RECURSIVE ClaimWait(_)
ClaimWait(k) == IF k > 3 THEN 0 ELSE ClaimIntervals[k + 1] + ClaimWait(k + 1)

QualifyingByStartDate ==
    LET runStart == getCurrentRunStart(progressions)
    IN {i \in 1 .. Len(progressions) :
           /\ \A r \in Range(runStart) : progressions[i].started_at >= r
           /\ progressions[i].passed_at # NULL
           /\ progressions[i].abandoned_at = NULL
           /\ progressions[i].level < _currentLevel}

\* ... and under the latest-attempt-per-level policy
QualifyingByLatest ==
    {i \in 1 .. Len(progressions) :
        /\ i = LatestIndexOf(progressions, progressions[i].level)
        /\ progressions[i].passed_at # NULL
        /\ progressions[i].abandoned_at = NULL
        /\ progressions[i].level < _currentLevel}

\* C6: with fewer than 2 qualifying attempts in the current run computeStats
\* returns null, under either revision's run policy; that covers the empty
\* history and the history with one completed attempt.
C6_InsufficientDataIsNull ==
    phase = "rendered" =>
        /\ Cardinality(QualifyingByStartDate) < 2 => _stats = NULL
        /\ Cardinality(QualifyingByLatest) < 2 => _statsLatest = NULL

\* C6 witness: a history with exactly one qualifying attempt among others
C6_Witness ==
    /\ phase = "rendered"
    /\ Len(progressions) = 3
    /\ Cardinality(QualifyingByStartDate) = 1
    /\ Cardinality(QualifyingByLatest) = 1
    /\ _stats = NULL
    /\ _statsLatest = NULL

\* how many times v occurs in seq
Occurrences(seq, v) == Cardinality({i \in 1 .. Len(seq) : seq[i] = v})

\* C7: the durations computeStats summarizes (unsorted and sorted) are, with
\* multiplicity, exactly passedAt - startedAt of the attempts that are in the
\* current run, passed, not abandoned and below the current level.
C7_DurationsAreTheQualifying ==
    (phase = "rendered" /\ _stats # NULL) =>
        LET st == _stats[1]
            qualifying == QualifyingByStartDate
            took == [i \in qualifying |->
                        progressions[i].passed_at[1] - progressions[i].started_at]
        IN /\ Len(st.durs) = Cardinality(qualifying)
           /\ Len(st.sorted) = Cardinality(qualifying)
           /\ \A v \in {took[i] : i \in qualifying} \cup Range(st.durs) \cup Range(st.sorted) :
                 LET n == Cardinality({i \in qualifying : took[i] = v})
                 IN Occurrences(st.durs, v) = n /\ Occurrences(st.sorted, v) = n

\* C7 witness: statistics over two attempts while a third, passed one is left
\* out because it is at the current level
C7_Witness ==
    /\ phase = "rendered"
    /\ _stats # NULL
    /\ Len(progressions) = 3
    /\ Len(_stats[1].durs) = 2
    /\ \E i \in 1 .. 3 :
          /\ progressions[i].passed_at # NULL
          /\ progressions[i].abandoned_at = NULL
          /\ progressions[i].level = _currentLevel

\* the element at 0-based place k of the ascending order of seq, by counting
ElementAtRank(seq, k) ==
    CHOOSE v \in Range(seq) :
        /\ Cardinality({i \in 1 .. Len(seq) : seq[i] < v}) <= k
        /\ Cardinality({i \in 1 .. Len(seq) : seq[i] <= v}) >= k + 1

\* the statistics both revisions computed, where there are any
ComputedStats ==
    {r[1] : r \in {x \in {_stats, _statsLatest} : phase = "rendered" /\ x # NULL}}

\* C8 as stated: the median is the middle element, the lower middle one
\* (0-based place n/2 - 1) when the count n is even.
C8_MedianLowerMiddle ==
    \A st \in ComputedStats :
        LET n == Len(st.durs)
        IN st.median = ElementAtRank(st.durs, IF n % 2 = 0 THEN n \div 2 - 1 ELSE n \div 2)

\* C8 amended: the median is the element at 0-based place floor(n / 2) of the
\* ascending order: the middle element for odd n, the upper middle one for
\* even n, with no interpolation.
C8_MedianUpperMiddle ==
    \A st \in ComputedStats :
        st.median = ElementAtRank(st.durs, Len(st.durs) \div 2)

\* C8 witness: four durations whose two middle elements differ
C8_Witness ==
    /\ phase = "rendered"
    /\ _stats # NULL
    /\ Len(_stats[1].durs) = 4
    /\ ElementAtRank(_stats[1].durs, 1) = 5 * DAY
    /\ _stats[1].median = 7 * DAY

\* the history of the scenario: five passed levels that took 5, 7, 7, 9 and
\* 20 days, in any order
IsScenarioHistory ==
    /\ Len(progressions) = 5
    /\ LET took == [i \in 1 .. 5 |->
                       progressions[i].passed_at[1] - progressions[i].started_at]
       IN /\ Occurrences(took, 5 * DAY) = 1
          /\ Occurrences(took, 7 * DAY) = 2
          /\ Occurrences(took, 9 * DAY) = 1
          /\ Occurrences(took, 20 * DAY) = 1

\* avg = 9.6 days: the sum over the count equals 96/10 days
IsNinePointSixDays(avg) == avg.num * 10 = 96 * DAY * avg.den

\* C9 as stated: durations [5, 7, 7, 9, 20] days give median 7, fast
\* percentile 5, slow percentile 9 and average 9.6.
C9_ScenarioFastIsFive ==
    (phase = "rendered" /\ IsScenarioHistory) =>
        /\ _stats # NULL
        /\ _stats[1].median = 7 * DAY
        /\ _stats[1].fast = 5 * DAY
        /\ _stats[1].slow = 9 * DAY
        /\ IsNinePointSixDays(_stats[1].avg)

\* C9 amended: durations [5, 7, 7, 9, 20] days give median 7, fast
\* percentile 7 (the element at place floor(0.25 * 5) = 1), slow percentile 9
\* and average 9.6.
C9_ScenarioFastIsSeven ==
    (phase = "rendered" /\ IsScenarioHistory) =>
        /\ _stats # NULL
        /\ _stats[1].median = 7 * DAY
        /\ _stats[1].fast = 7 * DAY
        /\ _stats[1].slow = 9 * DAY
        /\ IsNinePointSixDays(_stats[1].avg)

\* C9 witness: the scenario was rendered, levels in the order 20, 7, 5, 9, 7
C9_Witness ==
    /\ phase = "rendered"
    /\ IsScenarioHistory
    /\ _stats # NULL
    /\ _stats[1].durs = <<20 * DAY, 7 * DAY, 5 * DAY, 9 * DAY, 7 * DAY>>

\* C10: the slow percentile is the element at 0-based place floor(0.75 * n)
\* of the ascending order, also when durations of 0 days occur.
C10_SlowIsAtThreeQuarters ==
    \A st \in ComputedStats :
        st.slow = ElementAtRank(st.durs, (3 * Len(st.durs)) \div 4)

\* C11: whenever computeStats returns statistics, fast <= median <= slow,
\* also with repeated, equal and zero durations.
C11_PercentilesOrdered ==
    \A st \in ComputedStats :
        st.fast <= st.median /\ st.median <= st.slow

\* C11 witness: statistics over [0, 0, 0, 0, 5] days, where the slow
\* percentile came from the fallback
C11_Witness ==
    /\ phase = "rendered"
    /\ _stats # NULL
    /\ _stats[1].sorted = <<0, 0, 0, 0, 5 * DAY>>
    /\ _stats[1].fast = 0
    /\ _stats[1].median = 0
    /\ _stats[1].slow = 5 * DAY

\* ---------------------------------------------------------------- Run Segmentation claims
\* no two attempts of the sequence are at the same level
OneAttemptPerLevel(attempts) ==
    \A i, j \in 1 .. Len(attempts) : attempts[i].level = attempts[j].level => i = j

\* C12: the current run holds at most one attempt per level number, under
\* the start-date policy and under the latest-attempt-per-level policy.
C12_RunHasOneAttemptPerLevel ==
    /\ OneAttemptPerLevel(currentRunOf(progressions))
    /\ OneAttemptPerLevel(getLatestRun(progressions))

\* C13: applying a segmentation policy to its own output returns that output
\* (the same attempts, in the same order), for both policies.
C13_SegmentationIdempotent ==
    /\ currentRunOf(currentRunOf(progressions)) = currentRunOf(progressions)
    /\ getLatestRun(getLatestRun(progressions)) = getLatestRun(progressions)

\* C13 witness: a restart with a tie: the run drops an earlier attempt and
\* keeps two attempts that started at the same instant
C13_Witness ==
    /\ Len(progressions) = 3
    /\ Len(currentRunOf(progressions)) = 2
    /\ currentRunOf(progressions)[1].started_at = currentRunOf(progressions)[2].started_at
    /\ Len(getLatestRun(progressions)) = 2

\* ---------------------------------------------------------------- Forecast claims
\* the pace figure of the selected scenario, read off the snapshot
SelectedFigure(st, key) ==
    CASE key = "fast" -> Rat(st.fast)
      [] key = "median" -> Rat(st.median)
      [] key = "avg" -> st.avg
      [] key = "recent" -> st.recent
      [] key = "slow" -> Rat(st.slow)

\* now + left levels at the pace q, whole time units kept
Forecast(now, left, q) == now + Trunc(left * q.num, q.den)

\* C14: the predicted instant shown is now + (60 - currentLevel) x the pace
\* figure of the selected scenario, for each of the five scenarios.
C14_PredictionUsesSelectedPace ==
    (phase = "rendered" /\ _stats # NULL /\ pred # NULL) =>
        pred[1].date = Forecast(pred[1].now, 60 - _currentLevel,
                                SelectedFigure(_stats[1], _activePace))

\* C15: the number of levels remaining a forecast uses is never negative; at
\* or above level 60 it is 0 and the forecast instant is now.
C15_LevelsRemainingClamped ==
    (phase = "rendered" /\ pred # NULL) =>
        /\ pred[1].left >= 0
        /\ _currentLevel >= 60 => (pred[1].left = 0 /\ pred[1].date = pred[1].now)

\* C16: for the snapshot and the instant of the prediction shown, the
\* forecast does not decrease as the levels remaining grow (the pace
\* scenario fixed), nor as the pace figure grows (the levels remaining fixed).
C16_ForecastMonotone ==
    (phase = "rendered" /\ _stats # NULL /\ pred # NULL) =>
        LET st == _stats[1]
            now == pred[1].now
        IN /\ \A k \in PaceKeys : \A l1, l2 \in ForecastLevels :
                 levelsLeft(l1) <= levelsLeft(l2) =>
                     predictedDate(st, k, l1, now) <= predictedDate(st, k, l2, now)
           /\ \A k1, k2 \in PaceKeys :
                 LET q1 == SelectedFigure(st, k1)
                     q2 == SelectedFigure(st, k2)
                 IN q1.num * q2.den <= q2.num * q1.den =>
                        predictedDate(st, k1, _currentLevel, now)
                            <= predictedDate(st, k2, _currentLevel, now)

\* ---------------------------------------------------------------- Next-Level-Up claims
\* the assignments at the given positions, in order
Picked(items, S) ==
    SelectSeq([i \in 1 .. Len(items) |-> [at |-> i, item |-> items[i]]],
              LAMBDA x : x.at \in S)

\* not burned, below guru, started
BlockingAsStated ==
    {i \in 1 .. Len(assignments) :
        /\ assignments[i].burned_at = NULL
        /\ assignments[i].srs_stage < 4
        /\ assignments[i].started_at # NULL}

BlockingOfType(type) ==
    {i \in BlockingAsStated : assignments[i].subject_type = type}

\* the mastery instant the claims give an item: simulateToGuru from the
\* later of now and availableAt (now when availableAt is absent)
MasteryInstant(a, now) ==
    LET from == IF a.available_at # NULL /\ a.available_at[1] > now
                THEN a.available_at[1] ELSE now
    IN simulateToGuru(from, a.srs_stage)

\* the mastery instants of the assignments at the positions S
MasteryInstants(S, now) ==
    LET picked == Picked(assignments, S)
    IN [k \in 1 .. Len(picked) |-> MasteryInstant(picked[k].item, now)]

\* C17: when no radical or kanji is blocking (all the more when no item is),
\* computeNextLevel returns blockingCount = 0, no critical item and
\* levelUpDate = nextWindow(now).
C17_NoBlockingIsImminent ==
    (nextLevel # NULL /\ BlockingOfType("radical") \cup BlockingOfType("kanji") = {}) =>
        /\ nextLevel[1].result.blockingCount = 0
        /\ nextLevel[1].result.criticalItem = NULL
        /\ nextLevel[1].result.levelUpDate = nextWindow(nextLevel[1].now)

\* C17 witness: guru, burned and vocabulary items only, read in the evening
C17_Witness ==
    /\ nextLevel # NULL
    /\ nextLevel[1].now = DAY + 19 * HOUR
    /\ Len(assignments) = 3
    /\ BlockingOfType("radical") \cup BlockingOfType("kanji") = {}
    /\ BlockingAsStated # {}
    /\ \E i \in 1 .. 3 : assignments[i].burned_at # NULL
    /\ nextLevel[1].result.levelUpDate = 2 * DAY + 9 * HOUR

\* C18 as stated: blockingCount counts exactly the items that are not
\* burned, below stage 4 and started.
C18_BlockingSetAsStated ==
    nextLevel # NULL =>
        nextLevel[1].result.blockingCount = Cardinality(BlockingAsStated)

\* C18 amended: blockingCount counts exactly the radicals and kanji that are
\* not burned, below stage 4 and started; items of another subject type are
\* never counted.
C18_BlockingSetByType ==
    nextLevel # NULL =>
        nextLevel[1].result.blockingCount =
            Cardinality(BlockingOfType("radical") \cup BlockingOfType("kanji"))

\* C18 witness: a blocking radical beside a burned kanji and a vocabulary
\* item that is started and below guru
C18_Witness ==
    /\ nextLevel # NULL
    /\ Len(assignments) = 3
    /\ Cardinality(BlockingOfType("radical")) = 1
    /\ BlockingOfType("vocabulary") # {}
    /\ \E i \in 1 .. 3 : assignments[i].subject_type = "kanji" /\ assignments[i].burned_at # NULL
    /\ nextLevel[1].result.blockingCount = 1

\* C19: with a kanji blocking, levelUpDate is the mastery instant at index
\* max(0, n - 1 - floor(n x 0.1)) of the n blocking kanji in ascending order
\* of mastery instant; the radicals play no part.
C19_KanjiNinetiethPercentile ==
    (nextLevel # NULL /\ BlockingOfType("kanji") # {}) =>
        LET n == Cardinality(BlockingOfType("kanji"))
        IN nextLevel[1].result.levelUpDate =
               ElementAtRank(MasteryInstants(BlockingOfType("kanji"), nextLevel[1].now),
                             Max0(n - 1 - (n \div 10)))

\* C19 witness: ten or more blocking kanji, not all mastered at the same
\* instant, the forecast earlier than the last of them, and a blocking
\* radical mastered later than the forecast
C19_Witness ==
    /\ nextLevel # NULL
    /\ Cardinality(BlockingOfType("kanji")) >= 10
    /\ \E i \in BlockingOfType("kanji") :
          MasteryInstant(assignments[i], nextLevel[1].now) > nextLevel[1].result.levelUpDate
    /\ \E i \in BlockingOfType("radical") :
          MasteryInstant(assignments[i], nextLevel[1].now) > nextLevel[1].result.levelUpDate

\* C20: with radicals blocking and no kanji, levelUpDate is the latest
\* mastery instant of the blocking radicals, and it is the mastery instant of
\* criticalItem.
C20_RadicalsOnlyLatest ==
    (nextLevel # NULL /\ BlockingOfType("radical") # {} /\ BlockingOfType("kanji") = {}) =>
        LET now == nextLevel[1].now
            r == nextLevel[1].result
        IN /\ \E i \in BlockingOfType("radical") :
                 r.levelUpDate = MasteryInstant(assignments[i], now)
           /\ \A i \in BlockingOfType("radical") :
                 r.levelUpDate >= MasteryInstant(assignments[i], now)
           /\ r.criticalItem # NULL
           /\ r.criticalItem[1].guruDate = r.levelUpDate
           /\ r.criticalItem[1].type = "radical"

\* C20 witness: two blocking radicals, the earlier mastered one fetched last,
\* beside a vocabulary item
C20_Witness ==
    /\ nextLevel # NULL
    /\ Len(assignments) = 3
    /\ BlockingOfType("kanji") = {}
    /\ BlockingOfType("vocabulary") # {}
    /\ \E i, j \in BlockingOfType("radical") :
          /\ i < j
          /\ MasteryInstant(assignments[i], nextLevel[1].now)
                 > MasteryInstant(assignments[j], nextLevel[1].now)
          /\ nextLevel[1].result.levelUpDate = MasteryInstant(assignments[i], nextLevel[1].now)

\* ---------------------------------------------------------------- Speedup claims
\* the sum of one counter over the review statistics
Tally(field) == SumSeq([i \in 1 .. Len(reviewStats) |-> reviewStats[i][field]])
TotalCorrect == Tally("meaning_correct") + Tally("reading_correct")
TotalIncorrect == Tally("meaning_incorrect") + Tally("reading_incorrect")

\* q is accuracy: 100 without answers, the share of correct answers x 100
\* otherwise
IsAccuracy(q) ==
    IF TotalCorrect + TotalIncorrect = 0 THEN q.num = 100 * q.den
    ELSE q.num * (TotalCorrect + TotalIncorrect) = TotalCorrect * 100 * q.den

\* C21: windowLostPerLevel >= 0 and the loss to mistakes per level
\* (extraDaysPerLevel, mistakeDaysLostPerLevel) >= 0, in both revisions.
C21_LossesNonNegative ==
    /\ speedup # NULL =>
          /\ speedup[1].result.windowLostPerLevel.num >= 0
          /\ speedup[1].result.extraDaysPerLevel.num >= 0
    /\ speedupFixed # NULL =>
          /\ speedupFixed[1].windowLostPerLevel.num >= 0
          /\ speedupFixed[1].mistakeDaysLostPerLevel.num >= 0

\* C21 witness: a median pace of 3 days, below both ideal paces, and records
\* without a single answer
C21_Witness ==
    /\ speedup # NULL /\ speedupFixed # NULL /\ _stats # NULL
    /\ _stats[1].median = 3 * DAY
    /\ TotalCorrect + TotalIncorrect = 0
    /\ Len(reviewStats) = 2
    /\ speedup[1].result.windowLostPerLevel.num = 0
    /\ speedupFixed[1].windowLostPerLevel.num = 0

\* C22: accuracy is totalCorrect / (totalCorrect + totalIncorrect) x 100 over
\* both facets of all records, and exactly 100 without answers, in both
\* revisions.
C22_Accuracy ==
    /\ speedup # NULL => IsAccuracy(speedup[1].result.accuracy)
    /\ speedupFixed # NULL => IsAccuracy(speedupFixed[1].overallAcc)

\* C22 witness: two records without answers, accuracy 100
C22_Witness ==
    /\ speedup # NULL /\ speedupFixed # NULL
    /\ Len(reviewStats) = 2
    /\ TotalCorrect + TotalIncorrect = 0
    /\ speedup[1].result.accuracy = Rat(100)
    /\ speedupFixed[1].overallAcc = Rat(100)

\* C23: combinedSaving = levelsRemaining x (max(w, m) + min(w, m) x 0.4), w
\* and m the losses per level, levelsRemaining = max(0, 60 - currentLevel).
C23_CombinedSaving ==
    speedupFixed # NULL =>
        LET w == speedupFixed[1].windowLostPerLevel
            m == speedupFixed[1].mistakeDaysLostPerLevel
        IN RatEq(speedupFixed[1].combinedSaving,
                 RatMul(Rat(Max0(60 - _currentLevel)),
                        RatAdd(RatMax(w, m), RatMul(RatMin(w, m), [num |-> 4, den |-> 10]))))

C27_FirstLessonAtNine ==
    speedup # NULL =>
        LET now == speedup[1].shown.now
            firstLesson == speedup[1].shown.firstLesson
        IN /\ firstLesson % DAY = 9 * HOUR
           /\ firstLesson > now
           /\ firstLesson - now <= DAY

\* ---------------------------------------------------------------- Run claims
Sources == {"user", "progressions", "reviewStats", "assignments"}

\* the request to the source was answered with a failure of any kind
Failed(source) == responses[source] \in {"unauthorized", "not_ok", "rejected"}

\* the run has ended in the failure shown to the user
StoppedWithError ==
    /\ phase = "failed"
    /\ ui.error # NULL
    /\ ~ui.loading
    /\ ~ui.results

\* what render and its callees compute
Computed == <<_stats, pred, nextLevel, speedup, speedupFixed>>

Thrown(source) ==
    \/ source \in {"user", "progressions"} /\ Failed(source)
    \/ responses[source] = "rejected"

C25_InsufficientHistoryStops ==
    [][(phase = "fetching" /\ phase' = "rendered"
            /\ Cardinality(QualifyingByStartDate') < 2) =>
          /\ ui'.error = Some(KeepGoing)
          /\ ~ui'.loading
          /\ ~ui'.results
          /\ _stats' = NULL
          /\ pred' = pred
          /\ nextLevel' = nextLevel
          /\ speedup' = speedup
          /\ speedupFixed' = speedupFixed]_vars

\* C25 witness: one open level rendered, with assignments and review
\* statistics at hand
C25_Witness ==
    /\ phase = "rendered"
    /\ Len(progressions) = 1
    /\ Len(assignments) > 0
    /\ Len(reviewStats) > 0
    /\ _stats = NULL
    /\ ui.error = Some(KeepGoing)
    /\ ~ui.loading /\ ~ui.results
    /\ pred = NULL /\ nextLevel = NULL /\ speedup = NULL /\ speedupFixed = NULL

NoRestarts ==
    \A i, j \in 1 .. Len(progressions) :
        /\ progressions[i].level = progressions[j].level => i = j
        /\ (\/ progressions[i].started_at < progressions[j].started_at
            \/ (progressions[i].started_at = progressions[j].started_at /\ i < j)) =>
               progressions[i].level < progressions[j].level

\* C29: on a history without restarts the start-date policy and the
\* latest-attempt-per-level policy give the same statistics, or both none,
\* at every current level.
C29_PoliciesAgreeWithoutRestarts ==
    (phase = "rendered" /\ NoRestarts) => _stats = _statsLatest

\* C29 witness: three levels in three attempts, two of them passed below the
\* current level, statistics computed
C29_Witness ==
    /\ phase = "rendered"
    /\ NoRestarts
    /\ Len(progressions) = 3
    /\ _stats # NULL
    /\ Len(_stats[1].done) = 2
    /\ _stats = _statsLatest

====
